---- MODULE Spec2Model ----
(***************************************************************************)
(* Model of roomserver/storage/sqlite3/event_json_table.go: the table      *)
(* roomserver_event_json and the two statements run against it,            *)
(* insertEventJSON and bulkSelectEventJSON, each inside a caller-owned     *)
(* *sql.Tx.  The database engine is SQLite in its default rollback-journal *)
(* mode: one writer at a time (RESERVED lock), readers hold a SHARED lock  *)
(* until their transaction ends, and a commit needs every other            *)
(* transaction's SHARED lock to be gone.                                   *)
(***************************************************************************)
EXTENDS Integers, Sequences, FiniteSets, TLC

\* ---------------------------------------------------------------- bounds
MaxNID == 2          \* event NIDs are 1..MaxNID
MaxLen == 2          \* longest eventNIDs argument of bulkSelectEventJSON

Txs == {"T1", "T2"}
Payloads == {"a", "b"}
EventNIDs == 1..MaxNID

VARIABLES
    committed,   \* the durable table: a set of rows <<event_nid, event_json>>
    work,        \* work[t]: the table as modified by t (meaningful while t writes)
    lock,        \* lock[t]: "none" | "shared" | "reserved"
    pc,          \* pc[t]: "idle" | "ready" | "ins_wait" | "panic" | "done"
    insArg,      \* insArg[t]: arguments of the insert that is waiting for the lock
    lastIns,     \* lastIns[t]: t's last successful insert in this transaction:
                 \*   <<eventNID, eventJSON, payload the identifier had before>>
    ret          \* what the call that returned in the last step returned, and to whom

vars == <<committed, work, lock, pc, insArg, lastIns, ret>>

\* ---------------------------------------------------------------- values
NoRow == "norow"
NoArg == <<0, "">>
NoIns == <<0, "", NoRow>>
Faults == {"nil", "canceled"}    \* how ExecContext/QueryContext can fail

\* eventJSONPair, and its zero value
eventJSONPair(nid, json) == [EventNID |-> nid, EventJSON |-> json]
ZeroPair == eventJSONPair(0, "")

NoRet ==
    [tx |-> "none", op |-> "none", err |-> "nil", nilres |-> FALSE, results |-> <<>>,
     ids |-> <<>>, nid |-> 0, json |-> "", pre |-> NoRow, fault |-> "nil",
     rowsErr |-> "nil", scanFailed |-> FALSE, n |-> 0, waited |-> FALSE]

Range(s) == {s[k] : k \in 1..Len(s)}

SeqsUpTo(S, n) == UNION {[1..k -> S] : k \in 0..n}

\* ---------------------------------------------------------------- schema
\* event_nid INTEGER NOT NULL PRIMARY KEY
PrimaryKey(table) == \A r, q \in table : r[1] = q[1] => r = q

Tables == {tb \in SUBSET (EventNIDs \X Payloads) : PrimaryKey(tb)}

PayloadOf(table, nid) ==
    IF \E r \in table : r[1] = nid
    THEN (CHOOSE r \in table : r[1] = nid)[2]
    ELSE NoRow

\* the table transaction t reads and writes
View(t) == IF lock[t] = "reserved" THEN work[t] ELSE committed

\* ---------------------------------------------------------------- statements
\* INSERT ... ON CONFLICT DO NOTHING as REPLACE would behave
InsertOrReplaceSQL(table, nid, json) ==
    [table |-> {r \in table : r[1] # nid} \cup {<<nid, json>>}, err |-> "nil"]

\* INSERT without the ON CONFLICT clause
InsertNoConflictClauseSQL(table, nid, json) ==
    IF \E r \in table : r[1] = nid
    THEN [table |-> table, err |-> "constraint"]
    ELSE [table |-> table \cup {<<nid, json>>}, err |-> "nil"]

\* INSERT into a table that has lost its key
InsertNoKeySQL(table, nid, json) ==
    [table |-> table \cup {<<nid, json>>}, err |-> "nil"]

\* INSERT INTO roomserver_event_json (event_nid, event_json) VALUES ($1, $2)
\*   ON CONFLICT DO NOTHING
insertEventJSONSQL(table, nid, json) ==
    IF \E r \in table : r[1] = nid
    THEN [table |-> table, err |-> "nil"]
    ELSE [table |-> table \cup {<<nid, json>>}, err |-> "nil"]

\* common.QueryVariadic(count): the placeholders $1 .. $count
QueryVariadic(count) == [k \in 1..count |-> k]

\* iEventNIDs: the arguments bound to the placeholders
iEventNIDs(eventNIDs) == [k \in 1..Len(eventNIDs) |-> eventNIDs[k]]

\* the values of the IN list once the arguments are bound
InList(eventNIDs) ==
    LET ph == QueryVariadic(Len(iEventNIDs(eventNIDs)))
    IN  {iEventNIDs(eventNIDs)[ph[k]] : k \in 1..Len(ph)}

\* ORDER BY event_nid ASC
RECURSIVE OrderByEventNID(_)
OrderByEventNID(rowset) ==
    IF rowset = {} THEN <<>>
    ELSE LET m == CHOOSE r \in rowset : \A q \in rowset : r[1] <= q[1]
         IN  <<m>> \o OrderByEventNID(rowset \ {m})

\* SELECT event_nid, event_json FROM roomserver_event_json
\*   WHERE event_nid IN (...) ORDER BY event_nid ASC
bulkSelectEventJSONSQL(table, eventNIDs) ==
    OrderByEventNID({r \in table : r[1] \in InList(eventNIDs)})

\* an engine that rejects the empty list IN ()
QueryContextStrictIN(table, eventNIDs, fault) ==
    IF fault # "nil" THEN [err |-> fault, rows |-> <<>>]
    ELSE IF eventNIDs = <<>> THEN [err |-> "syntax", rows |-> <<>>]
    ELSE [err |-> "nil", rows |-> bulkSelectEventJSONSQL(table, eventNIDs)]

\* txn.QueryContext(ctx, selectOrig, iEventNIDs...)
QueryContext(table, eventNIDs, fault) ==
    IF fault # "nil" THEN [err |-> fault, rows |-> <<>>]
    ELSE [err |-> "nil", rows |-> bulkSelectEventJSONSQL(table, eventNIDs)]

\* make([]eventJSONPair, 0, len(eventNIDs)): capacity without length
MakeResultsCapOnly(eventNIDs) == <<>>

\* results := make([]eventJSONPair, len(eventNIDs))
MakeResults(eventNIDs) == [k \in 1..Len(eventNIDs) |-> ZeroPair]

\* a Scan error that returns the rows decoded so far
ScanErrorReturnPartial(res, n, err) ==
    [results |-> SubSeq(res, 1, n), nilres |-> FALSE, err |-> "nil"]

\* if err := rows.Scan(...); err != nil { return nil, err }
ScanErrorReturn(res, n, err) ==
    [results |-> <<>>, nilres |-> TRUE, err |-> err]

\* return results[:i], nil
LoopExitReturn(res, n, rowsErr) ==
    [results |-> SubSeq(res, 1, n), nilres |-> FALSE, err |-> "nil"]

\* ---------------------------------------------------------------- state
TypeOK ==
    /\ committed \subseteq EventNIDs \X Payloads
    /\ \A t \in Txs : work[t] \subseteq EventNIDs \X Payloads
    /\ lock \in [Txs -> {"none", "shared", "reserved"}]
    /\ pc \in [Txs -> {"idle", "ready", "ins_wait", "panic", "done"}]

Init ==
    /\ committed \in Tables
    /\ work = [t \in Txs |-> {}]
    /\ lock = [t \in Txs |-> "none"]
    /\ pc = [t \in Txs |-> "idle"]
    /\ insArg = [t \in Txs |-> NoArg]
    /\ lastIns = [t \in Txs |-> NoIns]
    /\ ret = NoRet

OtherWriter(t) == \E u \in Txs \ {t} : lock[u] = "reserved"
OtherLocked(t) == \E u \in Txs \ {t} : lock[u] # "none"

\* the caller opens a transaction
Begin(t) ==
    /\ ret = NoRet
    /\ pc[t] = "idle"
    /\ pc' = [pc EXCEPT ![t] = "ready"]
    /\ ret' = NoRet
    /\ UNCHANGED <<committed, work, lock, insArg, lastIns>>

\* the caller commits: t's table becomes the durable one
Commit(t) ==
    /\ ret = NoRet
    /\ pc[t] = "ready"
    /\ lock[t] = "reserved" => ~OtherLocked(t)
    /\ committed' = View(t)
    /\ work' = [work EXCEPT ![t] = {}]
    /\ lock' = [lock EXCEPT ![t] = "none"]
    /\ pc' = [pc EXCEPT ![t] = "done"]
    /\ lastIns' = [lastIns EXCEPT ![t] = NoIns]
    /\ ret' = NoRet
    /\ UNCHANGED insArg

\* the caller rolls back: t's rows are dropped
Rollback(t) ==
    /\ ret = NoRet
    /\ pc[t] = "ready"
    /\ work' = [work EXCEPT ![t] = {}]
    /\ lock' = [lock EXCEPT ![t] = "none"]
    /\ pc' = [pc EXCEPT ![t] = "done"]
    /\ lastIns' = [lastIns EXCEPT ![t] = NoIns]
    /\ ret' = NoRet
    /\ UNCHANGED <<committed, insArg>>

\* the INSERT runs in t: t takes the write lock and its table changes
ExecInsert(t, nid, json, waited) ==
    LET r == insertEventJSONSQL(View(t), nid, json)
    IN  /\ lock' = [lock EXCEPT ![t] = "reserved"]
        /\ work' = [work EXCEPT ![t] = r.table]
        /\ lastIns' = [lastIns EXCEPT ![t] =
                        IF r.err = "nil" THEN <<nid, json, PayloadOf(View(t), nid)>> ELSE @]
        /\ ret' =
                     [NoRet EXCEPT !.tx = t, !.op = "insert", !.err = r.err, !.nid = nid,
                                   !.json = json, !.pre = PayloadOf(View(t), nid),
                                   !.waited = waited]

\* insertEventJSON(ctx, txn, eventNID, eventJSON): ExecContext either fails
\* (fault), finds the write lock taken and waits, or runs the INSERT
insertEventJSON(t, nid, json, fault) ==
    /\ ret = NoRet
    /\ pc[t] = "ready"
    /\ IF fault # "nil"
       THEN /\ ret' =
                         [NoRet EXCEPT !.tx = t, !.op = "insert", !.err = fault, !.nid = nid,
                                       !.json = json, !.pre = PayloadOf(View(t), nid),
                                       !.fault = fault]
            /\ UNCHANGED <<work, lock, pc, insArg, lastIns>>
       ELSE IF OtherWriter(t)
       THEN /\ pc' = [pc EXCEPT ![t] = "ins_wait"]
            /\ insArg' = [insArg EXCEPT ![t] = <<nid, json>>]
            /\ ret' = NoRet
            /\ UNCHANGED <<work, lock, lastIns>>
       ELSE /\ ExecInsert(t, nid, json, FALSE)
            /\ UNCHANGED <<pc, insArg>>
    /\ UNCHANGED committed

\* the other writer has ended: the waiting INSERT runs
InsertResume(t) ==
    /\ ret = NoRet
    /\ pc[t] = "ins_wait"
    /\ ~OtherWriter(t)
    /\ ExecInsert(t, insArg[t][1], insArg[t][2], TRUE)
    /\ pc' = [pc EXCEPT ![t] = "ready"]
    /\ insArg' = [insArg EXCEPT ![t] = NoArg]
    /\ UNCHANGED committed

\* the wait ends without the lock: busy timeout, or the context is cancelled
InsertGiveUp(t, err) ==
    /\ ret = NoRet
    /\ pc[t] = "ins_wait"
    /\ err \in {"busy", "canceled"}
    /\ ret' =
                 [NoRet EXCEPT !.tx = t, !.op = "insert", !.err = err, !.nid = insArg[t][1],
                               !.json = insArg[t][2],
                               !.pre = PayloadOf(View(t), insArg[t][1]),
                               !.fault = err, !.waited = TRUE]
    /\ pc' = [pc EXCEPT ![t] = "ready"]
    /\ insArg' = [insArg EXCEPT ![t] = NoArg]
    /\ UNCHANGED <<committed, work, lock, lastIns>>

\* the loop of bulkSelectEventJSON over the open cursor cur, with n rows decoded
\* into res so far.  What the environment does is (kind, at): after `at` rows,
\* rows.Next() is false with rows.Err() = kind ("canceled": the context was
\* cancelled, "ioerr": a step of the cursor failed), or rows.Scan fails
\* (kind = "scan"); kind = "nil" is a run without failure.
RECURSIVE ReadLoop(_, _, _, _, _)
ReadLoop(cur, res, n, kind, at) ==
    IF kind \in {"canceled", "ioerr"} /\ n = at
    THEN [panic |-> FALSE, out |-> LoopExitReturn(res, n, kind),
          rowsErr |-> kind, scanFailed |-> FALSE, n |-> n]
    ELSE IF cur = <<>>
    THEN [panic |-> FALSE, out |-> LoopExitReturn(res, n, "nil"),
          rowsErr |-> "nil", scanFailed |-> FALSE, n |-> n]
    ELSE IF n >= Len(res)
    THEN [panic |-> TRUE, out |-> [results |-> <<>>, nilres |-> TRUE, err |-> "nil"],
          rowsErr |-> "nil", scanFailed |-> FALSE, n |-> n]
    ELSE IF kind = "scan" /\ n = at
    THEN [panic |-> FALSE, out |-> ScanErrorReturn(res, n, "scan"),
          rowsErr |-> "nil", scanFailed |-> TRUE, n |-> n]
    ELSE ReadLoop(Tail(cur),
                  [res EXCEPT ![n + 1] = eventJSONPair(Head(cur)[1], Head(cur)[2])],
                  n + 1, kind, at)

\* bulkSelectEventJSON(ctx, txn, eventNIDs).  The call is one step: t holds a
\* SHARED lock from the query on, so no commit can change the table under the
\* open cursor.
bulkSelectEventJSON(t, eventNIDs, fault, kind, at) ==
    /\ ret = NoRet
    /\ pc[t] = "ready"
    /\ LET q == QueryContext(View(t), eventNIDs, fault)
           l == ReadLoop(q.rows, MakeResults(eventNIDs), 0, kind, at)
       IN  IF q.err # "nil"
           THEN /\ ret' = [NoRet EXCEPT !.tx = t, !.op = "select", !.err = q.err,
                                        !.nilres = TRUE, !.ids = eventNIDs,
                                        !.fault = fault]
                /\ UNCHANGED <<lock, pc>>
           ELSE /\ lock' = [lock EXCEPT ![t] = IF @ = "none" THEN "shared" ELSE @]
                /\ IF l.panic
                   THEN /\ pc' = [pc EXCEPT ![t] = "panic"]
                        /\ ret' = NoRet
                   ELSE /\ pc' = pc
                        /\ ret' = [NoRet EXCEPT !.tx = t, !.op = "select",
                                                !.err = l.out.err,
                                                !.nilres = l.out.nilres,
                                                !.results = l.out.results,
                                                !.ids = eventNIDs,
                                                !.rowsErr = l.rowsErr,
                                                !.scanFailed = l.scanFailed,
                                                !.n = l.n]
    /\ UNCHANGED <<committed, work, insArg, lastIns>>

\* what can happen to a cursor over the rows of n identifiers
LoopEvents(n) ==
    {<<"nil", 0>>} \cup ({"canceled", "ioerr", "scan"} \X (0..n))

\* the caller has received what the call returned
Returned ==
    /\ ret # NoRet
    /\ ret' = NoRet
    /\ UNCHANGED <<committed, work, lock, pc, insArg, lastIns>>

\* one transaction at a time: the calls of a single transaction T1 on a table
\* left by earlier, finished transactions
NextSeq ==
    \/ Begin("T1")
    \/ Commit("T1")
    \/ Rollback("T1")
    \/ \E nid \in EventNIDs, json \in Payloads, fault \in Faults :
          insertEventJSON("T1", nid, json, fault)
    \/ \E eventNIDs \in SeqsUpTo(EventNIDs, MaxLen) :
          \/ bulkSelectEventJSON("T1", eventNIDs, "canceled", "nil", 0)
          \/ \E ev \in LoopEvents(Len(eventNIDs)) :
                bulkSelectEventJSON("T1", eventNIDs, "nil", ev[1], ev[2])
    \/ Returned

Spec == Init /\ [][NextSeq]_vars

\* two transactions at once, each reading at most one identifier per call
Lookups == {<<>>} \cup {<<nid>> : nid \in EventNIDs}

NextConc ==
    \/ \E t \in Txs : Begin(t)
    \/ \E t \in Txs : Commit(t)
    \/ \E t \in Txs : Rollback(t)
    \/ \E t \in Txs, nid \in EventNIDs, json \in Payloads, fault \in Faults :
          insertEventJSON(t, nid, json, fault)
    \/ \E t \in Txs : InsertResume(t)
    \/ \E t \in Txs, err \in {"busy", "canceled"} : InsertGiveUp(t, err)
    \/ \E t \in Txs, eventNIDs \in Lookups :
          \/ bulkSelectEventJSON(t, eventNIDs, "canceled", "nil", 0)
          \/ \E ev \in LoopEvents(Len(eventNIDs)) :
                bulkSelectEventJSON(t, eventNIDs, "nil", ev[1], ev[2])
    \/ Returned

SpecConc == Init /\ [][NextConc]_vars

\* ---------------------------------------------------------------- claims
\* the rows of the result that the last call returned
RetRows == {<<ret.results[k].EventNID, ret.results[k].EventJSON>> :
               k \in 1..Len(ret.results)}

\* the result is in strictly ascending identifier order
RetAscending ==
    \A k \in 1..(Len(ret.results) - 1) :
        ret.results[k].EventNID < ret.results[k + 1].EventNID

\* the rows the caller's transaction can see for the identifiers it asked for
StoredRequested == {r \in View(ret.tx) : r[1] \in Range(ret.ids)}

SelectOK == ret.op = "select" /\ ret.err = "nil"

\* a bulkSelectEventJSON of exactly the identifier that the same transaction
\* inserted last, returning without error
SelectAfterInsert ==
    /\ SelectOK
    /\ lastIns[ret.tx] # NoIns
    /\ ret.ids = <<lastIns[ret.tx][1]>>

\* C1 as claimed: after insertEventJSON(tx, id, p) has returned success,
\* bulkSelectEventJSON(tx, [id]) in the same transaction returns exactly [(id, p)]
\* (stated for the reads whose cursor ran to its end, rows.Err() = nil).
C1_InsertThenSelectReturnsInserted ==
    (SelectAfterInsert /\ ret.rowsErr = "nil") =>
        /\ ~ret.nilres
        /\ ret.results = <<eventJSONPair(lastIns[ret.tx][1], lastIns[ret.tx][2])>>

\* C1 as amended: after insertEventJSON(tx, id, p) has returned success, a
\* bulkSelectEventJSON(tx, [id]) in the same transaction that returns no error
\* returns [(id, q)], where q is p if id had no row before the insert and the
\* payload id already had otherwise; it returns the empty sequence instead only
\* when the cursor stopped with rows.Err() set before the row was read.
C1_InsertThenSelectReturnsStored ==
    SelectAfterInsert =>
        LET nid == lastIns[ret.tx][1]
            q == IF lastIns[ret.tx][3] = NoRow THEN lastIns[ret.tx][2]
                 ELSE lastIns[ret.tx][3]
        IN  /\ ~ret.nilres
            /\ \/ ret.results = <<eventJSONPair(nid, q)>>
               \/ ret.results = <<>> /\ ret.rowsErr # "nil"

\* C1 witness: the identifier already had another payload, and the read after
\* the successful insert returns that one
C1_Witness ==
    /\ SelectAfterInsert
    /\ lastIns[ret.tx][3] \notin {NoRow, lastIns[ret.tx][2]}
    /\ ret.results = <<eventJSONPair(lastIns[ret.tx][1], lastIns[ret.tx][3])>>

\* C2: an insertEventJSON for an identifier that already has a row (payload A),
\* run by the engine with any payload B, returns success and leaves the one
\* row of that identifier with payload A.
C2_InsertIdempotent ==
    (ret.op = "insert" /\ ret.pre # NoRow /\ ret.fault = "nil") =>
        /\ ret.err = "nil"
        /\ {r \in View(ret.tx) : r[1] = ret.nid} = {<<ret.nid, ret.pre>>}

\* C2 witness: the transaction inserted (id, A) itself and now inserts (id, B),
\* B # A
C2_Witness ==
    /\ ret.op = "insert" /\ ret.err = "nil"
    /\ ret.pre \notin {NoRow, ret.json}
    /\ <<ret.nid, ret.pre>> \notin committed

C4_AppendOnly ==
    /\ PrimaryKey(committed)
    /\ [][/\ committed \subseteq committed'
          /\ PrimaryKey(committed')
          /\ \A t \in Txs : PrimaryKey(View(t)')]_vars

\* C4 witness: a later insert with another payload has run against a
\* committed row
C4_Witness ==
    /\ ret.op = "insert" /\ ret.err = "nil"
    /\ ret.pre \notin {NoRow, ret.json}
    /\ <<ret.nid, ret.pre>> \in committed

\* C5: when the cursor stops with rows.Err() set (the context was cancelled or
\* a step failed) while bulkSelectEventJSON iterates, the call returns that
\* error and no results.
C5_CursorFailureIsReturned ==
    (ret.op = "select" /\ ret.rowsErr # "nil") =>
        /\ ret.err = ret.rowsErr
        /\ ret.nilres

C7_ScanFailureFailsCall ==
    (ret.op = "select" /\ ret.scanFailed) =>
        /\ ret.err # "nil"
        /\ ret.nilres
        /\ ret.results = <<>>

\* C7 witness: a Scan failure after a row had been decoded
C7_Witness ==
    ret.op = "select" /\ ret.scanFailed /\ ret.n >= 1

\* C8: a bulkSelectEventJSON that returns no error returns no row that another
\* transaction has written and not committed (rolled-back rows included), and
\* returns every row its own transaction has written whose identifier it asks for.
C8_TransactionScoped ==
    SelectOK =>
        /\ \A u \in Txs \ {ret.tx} : RetRows \cap (View(u) \ committed) = {}
        /\ RetRows \subseteq View(ret.tx)
        /\ \A r \in View(ret.tx) \ committed :
              r[1] \in Range(ret.ids) => r \in RetRows

\* C9: bulkSelectEventJSON with an empty eventNIDs whose query is run returns
\* an empty, non-nil result and no error, whatever the table holds.
C9_EmptyInput ==
    (ret.op = "select" /\ ret.ids = <<>> /\ ret.fault = "nil") =>
        /\ ret.err = "nil"
        /\ ~ret.nilres
        /\ ret.results = <<>>

\* C9 witness: the empty lookup on a table that holds rows
C9_Witness ==
    /\ SelectOK /\ ret.ids = <<>> /\ ret.fault = "nil"
    /\ View(ret.tx) # {}

\* C10: the write results[i] is never out of bounds, and the returned length
\* is at most the number of distinct identifiers requested.
C10_IndexInBounds ==
    /\ \A t \in Txs : pc[t] # "panic"
    /\ ret.op = "select" => Len(ret.results) <= Cardinality(Range(ret.ids))

\* C10 witness: a lookup with a repeated identifier that fills one entry per
\* distinct identifier
C10_Witness ==
    /\ SelectOK
    /\ Len(ret.ids) > Cardinality(Range(ret.ids))
    /\ Len(ret.results) = Cardinality(Range(ret.ids))

====
